---- MODULE Spec2Model ----
(***************************************************************************)
(* Model of github.com/OpenSlides/vote-decrypt, package crypto             *)
(* (src/crypto/crypto.go), and of the Start/Stop/Clear service declared in *)
(* the protobuf file (src/unnamed/part_001).                               *)
(*                                                                         *)
(* Byte strings are sequences over 0..255 and keep their real lengths (32  *)
(* byte keys, 12 byte nonces, 16 byte tags), so the slicing and the length *)
(* checks of the code are the ones checked here.  The primitives the       *)
(* package imports (x25519, hkdf, aes-gcm, ed25519) are scaled down:       *)
(*   - x25519 is scalar multiplication in the cyclic group Z_(h*l) with    *)
(*     cofactor h and prime subgroup order l; a clamped scalar is a        *)
(*     multiple of h that is not a multiple of l; the all-zero output (a   *)
(*     low order input point) is an error, as in crypto/ecdh;              *)
(*   - aes-gcm is counter mode plus a polynomial (GHASH shaped) tag over   *)
(*     the prime field GF(p), with a non-zero hash subkey;                 *)
(*   - an ed25519 signature is the term (signer's public key, message).    *)
(***************************************************************************)
EXTENDS Integers, Sequences, FiniteSets, TLC

\* ------------------------------------------------------------ constants
pubKeySize == 32
nonceSize == 12
aesBlockSize == 16
gcmTagSize == 16
privKeySize == 32
seedSize == 32
hkdfKeySize == 32

\* Scaled down parameters of the primitives.
Cofactor == 8
SubgroupOrder == 7
FieldPrime == 251

GroupSize == Cofactor * SubgroupOrder
BasePoint == Cofactor

\* ------------------------------------------------------------ byte strings
Min(a, b) == IF a < b THEN a ELSE b

Zeros(n) == [i \in 1..n |-> 0]

\* The little endian value of bs[i..], reduced mod m.
RECURSIVE LEmodFrom(_, _, _)
LEmodFrom(bs, i, m) ==
    IF i > Len(bs) THEN 0 ELSE (bs[i] + 256 * LEmodFrom(bs, i + 1, m)) % m

LEmod(bs, m) == LEmodFrom(bs, 1, m)

Pow2(j) == CASE j = 0 -> 1 [] j = 1 -> 2 [] j = 2 -> 4 [] j = 3 -> 8
             [] j = 4 -> 16 [] j = 5 -> 32 [] j = 6 -> 64 [] OTHER -> 128

\* byte b with bit j inverted
FlipBit(b, j) == IF (b \div Pow2(j)) % 2 = 1 THEN b - Pow2(j) ELSE b + Pow2(j)

\* bs with bit j of its byte at position pos (1-based) inverted
FlipAt(bs, pos, j) == [bs EXCEPT ![pos] = FlipBit(bs[pos], j)]

\* ------------------------------------------------------------ io.Reader
\* A reader over a finite byte stream: src, the position pos, and chunk, the
\* most bytes one Read call hands out (a Read may return fewer bytes than asked).
NewReader(src, chunk) == [src |-> src, pos |-> 0, chunk |-> chunk]

Remaining(rd) == Len(rd.src) - rd.pos

\* rd.Read(p) with len(p) = n: (k, nil) with 0 < k <= n, or (0, EOF).
Read(rd, n) ==
    LET k == Min(Min(n, rd.chunk), Remaining(rd))
    IN  IF n = 0 THEN [data |-> <<>>, n |-> 0, err |-> "", rd |-> rd]
        ELSE IF k = 0 THEN [data |-> <<>>, n |-> 0, err |-> "EOF", rd |-> rd]
        ELSE [data |-> SubSeq(rd.src, rd.pos + 1, rd.pos + k), n |-> k, err |-> "",
              rd |-> [rd EXCEPT !.pos = rd.pos + k]]

\* io.ReadFull(rd, buf): Read until buf is full; EOF when nothing was read,
\* ErrUnexpectedEOF when the stream ended in between.
RECURSIVE ReadFullFrom(_, _, _)
ReadFullFrom(rd, buf, got) ==
    IF got >= Len(buf) THEN [data |-> buf, n |-> got, err |-> "", rd |-> rd]
    ELSE LET r == Read(rd, Len(buf) - got)
         IN  IF r.err # ""
             THEN [data |-> buf, n |-> got,
                   err |-> IF got = 0 THEN "EOF" ELSE "unexpected EOF", rd |-> r.rd]
             ELSE ReadFullFrom(r.rd,
                               [i \in 1..Len(buf) |->
                                   IF i > got /\ i <= got + r.n THEN r.data[i - got]
                                   ELSE buf[i]],
                               got + r.n)

ReadFull(rd, n) == ReadFullFrom(rd, Zeros(n), 0)

\* randutil.MaybeReadByte: reads one byte, or none (the choice is `maybe`).
MaybeReadByte(rd, maybe) == IF maybe = 1 THEN Read(rd, 1).rd ELSE rd

\* ------------------------------------------------------------ x25519
\* curve.NewPrivateKey / curve.NewPublicKey: only the length is checked.
NewPrivateKey(b) == [err |-> Len(b) # privKeySize, key |-> b]

NewPublicKey(b) == [err |-> Len(b) # pubKeySize, key |-> b]

ClampedScalar(key) == Cofactor * (1 + LEmod(key, SubgroupOrder - 1))

PointOf(b) == LEmod(b, GroupSize)

PointBytes(p) == <<p>> \o Zeros(pubKeySize - 1)

ScalarMult(key, point) == PointBytes((ClampedScalar(key) * PointOf(point)) % GroupSize)

\* PrivateKey.PublicKey().Bytes()
PublicKeyBytes(priv) == ScalarMult(priv, PointBytes(BasePoint))

\* PrivateKey.ECDH(remote): the all-zero result is rejected.
ECDH(priv, pub) ==
    LET out == ScalarMult(priv, pub)
    IN  [err |-> out = Zeros(pubKeySize), secret |-> out]

\* curve.GenerateKey(random)
GenerateKey(rd, maybe) ==
    LET r == ReadFull(MaybeReadByte(rd, maybe), privKeySize)
    IN  [err |-> r.err # "", key |-> r.data, rd |-> r.rd]

\* ------------------------------------------------------------ hkdf
\* The first hkdfKeySize bytes of hkdf.New(sha256.New, secret, salt, info).
Hkdf(secret, salt, info) ==
    LET s == 17 * LEmod(secret, FieldPrime) + 31 * LEmod(salt, FieldPrime)
             + 7 * LEmod(info, FieldPrime) + 3 * Len(salt) + 5 * Len(info)
    IN  [i \in 1..hkdfKeySize |-> (s + 29 * i) % 256]

\* ------------------------------------------------------------ aes-gcm
\* The block cipher under key: a permutation of GF(p).
BlockMul(key) == 1 + LEmod(key, FieldPrime - 12)

BlockAdd(key) == 1 + LEmod(key, FieldPrime - 1)

BlockEnc(key, x) == (BlockMul(key) * (x % FieldPrime) + BlockAdd(key)) % FieldPrime

\* the hash subkey H = E_K(0)
HashSubKey(key) == BlockEnc(key, 0)

\* the pre-counter block J0 of a 12 byte nonce
CounterBlock(nonce) == LEmod(nonce, FieldPrime)

\* counter mode: block i of the key stream is E_K(J0 + i)
KeyStream(key, nonce, i) == BlockEnc(key, CounterBlock(nonce) + i)

CtrEncrypt(key, nonce, pt) ==
    [i \in 1..Len(pt) |-> (pt[i] + KeyStream(key, nonce, i)) % 256]

CtrDecrypt(key, nonce, ct) ==
    [i \in 1..Len(ct) |-> (ct[i] + 256 - KeyStream(key, nonce, i)) % 256]

RECURSIVE GHashFrom(_, _, _, _)
GHashFrom(h, ct, i, acc) ==
    IF i > Len(ct) THEN ((acc + Len(ct)) * h) % FieldPrime
    ELSE GHashFrom(h, ct, i + 1, ((acc + ct[i]) * h) % FieldPrime)

GHash(h, ct) == GHashFrom(h, ct, 1, 0)

GcmTag(key, nonce, ct) ==
    <<(GHash(HashSubKey(key), ct) + BlockEnc(key, CounterBlock(nonce))) % FieldPrime>>
        \o Zeros(gcmTagSize - 1)

\* mode.Seal(nil, nonce, plaintext, nil)
Seal(key, nonce, pt) ==
    LET ct == CtrEncrypt(key, nonce, pt) IN ct \o GcmTag(key, nonce, ct)

\* mode.Open(nil, nonce, sealed, nil)
Open(key, nonce, sealed) ==
    IF Len(sealed) < gcmTagSize THEN [err |-> TRUE, plaintext |-> <<>>]
    ELSE LET ct  == SubSeq(sealed, 1, Len(sealed) - gcmTagSize)
             tag == SubSeq(sealed, Len(sealed) - gcmTagSize + 1, Len(sealed))
         IN  IF tag # GcmTag(key, nonce, ct) THEN [err |-> TRUE, plaintext |-> <<>>]
             ELSE [err |-> FALSE, plaintext |-> CtrDecrypt(key, nonce, ct)]

\* ------------------------------------------------------------ ed25519
\* ed25519.NewKeyFromSeed(seed): the 64 byte private key seed || public key;
\* it panics unless len(seed) = 32.
EdPublic(seed) ==
    <<1 + LEmod(seed, FieldPrime - 1), Len(seed)>> \o Zeros(pubKeySize - 2)

NewKeyFromSeed(seed) ==
    [panic |-> Len(seed) # seedSize, key |-> seed \o EdPublic(seed)]

\* PrivateKey.Public()
EdPublicOf(priv) == SubSeq(priv, seedSize + 1, seedSize + pubKeySize)

\* ed25519.Sign(priv, message)
EdSign(priv, message) == [signer |-> EdPublicOf(priv), message |-> message]

\* ed25519.Verify(pub, message, sig): panics unless len(pub) = 32.
EdVerify(pub, message, sig) ==
    [panic |-> Len(pub) # pubKeySize,
     ok    |-> Len(pub) = pubKeySize /\ sig.signer = pub /\ sig.message = message]

NoSig == [signer |-> <<>>, message |-> <<>>]

\* ------------------------------------------------------------ package crypto
\* New, had it accepted a seed of any length.
New_AnySeed(seed, rd) ==
    [panic |-> FALSE, mainKey |-> NewKeyFromSeed(seed).key, random |-> rd]

\* New(mainKey, random): the Crypto value, or a panic of ed25519.NewKeyFromSeed.
New(seed, rd) ==
    LET k == NewKeyFromSeed(seed)
    IN  [panic |-> k.panic, mainKey |-> IF k.panic THEN <<>> ELSE k.key, random |-> rd]

\* Crypto.PublicMainKey
PublicMainKey(mk) == EdPublicOf(mk)

\* CreatePollKey, had it called Read once in place of io.ReadFull.
CreatePollKey_OneRead(rd) ==
    LET r == Read(rd, privKeySize)
    IN  IF r.err # ""
        THEN [key |-> <<>>, err |-> "read from random source", rd |-> r.rd]
        ELSE [key |-> r.data \o Zeros(privKeySize - r.n), err |-> "", rd |-> r.rd]

\* Crypto.CreatePollKey: io.ReadFull of 32 bytes from c.random.
CreatePollKey(rd) ==
    LET r == ReadFull(rd, privKeySize)
    IN  IF r.err # ""
        THEN [key |-> <<>>, err |-> "read from random source", rd |-> r.rd]
        ELSE [key |-> r.data, err |-> "", rd |-> r.rd]

\* PublicPollKey, had it signed the private key in place of the public key.
PublicPollKey_SignsPrivate(mk, privateKey) ==
    LET privKey == NewPrivateKey(privateKey)
    IN  IF privKey.err
        THEN [pubKey |-> <<>>, pubKeySig |-> NoSig, err |-> "parsing private poll key"]
        ELSE [pubKey |-> PublicKeyBytes(privKey.key),
              pubKeySig |-> EdSign(mk, privKey.key), err |-> ""]

\* Crypto.PublicPollKey
PublicPollKey(mk, privateKey) ==
    LET privKey == NewPrivateKey(privateKey)
    IN  IF privKey.err
        THEN [pubKey |-> <<>>, pubKeySig |-> NoSig, err |-> "parsing private poll key"]
        ELSE LET pubKey == PublicKeyBytes(privKey.key)
             IN  [pubKey |-> pubKey, pubKeySig |-> EdSign(mk, pubKey), err |-> ""]

\* the length check, had it left out the authentication tag
MinCipherLen_NoTag == pubKeySize + nonceSize

\* the length below which Decrypt refuses a ciphertext
MinCipherLen == pubKeySize + nonceSize + aesBlockSize

\* the nonce, had the slice started one byte early
NonceOf_OneEarly(ciphertext) == SubSeq(ciphertext, pubKeySize, pubKeySize + nonceSize - 1)

\* the nonce embedded in a ciphertext
NonceOf(ciphertext) == SubSeq(ciphertext, pubKeySize + 1, pubKeySize + nonceSize)

\* the symmetric key both sides derive from the shared secret
DeriveKey(sharedSecred) == Hkdf(sharedSecred, <<>>, <<>>)

\* the end of Decrypt, had it used counter mode without the tag check
OpenSealed_NoTagCheck(key, nonce, sealedPart) ==
    IF Len(sealedPart) < gcmTagSize THEN [plaintext |-> <<>>, err |-> "decrypting ciphertext"]
    ELSE [plaintext |-> CtrDecrypt(key, nonce, SubSeq(sealedPart, 1, Len(sealedPart) - gcmTagSize)),
          err |-> ""]

\* the end of Decrypt: aes.NewCipher, cipher.NewGCM, mode.Open
OpenSealed(key, nonce, sealedPart) ==
    LET o == Open(key, nonce, sealedPart)
    IN  IF o.err THEN [plaintext |-> <<>>, err |-> "decrypting ciphertext"]
        ELSE [plaintext |-> o.plaintext, err |-> ""]

\* Crypto.Decrypt
Decrypt(privateKey, ciphertext) ==
    IF Len(ciphertext) < MinCipherLen
    THEN [plaintext |-> <<>>, err |-> "invalid cipher"]
    ELSE
    LET ephemeralPublicKey == NewPublicKey(SubSeq(ciphertext, 1, pubKeySize))
        nonce   == NonceOf(ciphertext)
        privKey == NewPrivateKey(privateKey)
    IN  IF ephemeralPublicKey.err
        THEN [plaintext |-> <<>>, err |-> "invalid publick key in ciphertext"]
        ELSE IF privKey.err
        THEN [plaintext |-> <<>>, err |-> "initializing private key"]
        ELSE
        LET sharedSecred == ECDH(privKey.key, ephemeralPublicKey.key)
        IN  IF sharedSecred.err
            THEN [plaintext |-> <<>>, err |-> "creating shared secred"]
            ELSE OpenSealed(DeriveKey(sharedSecred.secret), nonce,
                            SubSeq(ciphertext, pubKeySize + nonceSize + 1, Len(ciphertext)))

\* Crypto.Sign
Sign(mk, value) == EdSign(mk, value)

\* Encrypt(random, publicPollKey, plaintext); maybe is GenerateKey's choice to
\* read one byte more.  random.Read(nonce) may fill only a part of the nonce.
Encrypt(rd, maybe, publicPollKey, plaintext) ==
    LET ephemeralPrivateKey == GenerateKey(rd, maybe)
    IN  IF ephemeralPrivateKey.err
        THEN [ciphertext |-> <<>>, err |-> "creating ephemeral private key",
              rd |-> ephemeralPrivateKey.rd]
        ELSE
        LET cipherPrefix    == PublicKeyBytes(ephemeralPrivateKey.key)
            remotePublicKey == NewPublicKey(publicPollKey)
        IN  IF remotePublicKey.err
            THEN [ciphertext |-> <<>>, err |-> "parsing public key",
                  rd |-> ephemeralPrivateKey.rd]
            ELSE
            LET sharedSecred == ECDH(ephemeralPrivateKey.key, remotePublicKey.key)
            IN  IF sharedSecred.err
                THEN [ciphertext |-> <<>>, err |-> "creating shared secred",
                      rd |-> ephemeralPrivateKey.rd]
                ELSE
                LET key == DeriveKey(sharedSecred.secret)
                    r   == Read(ephemeralPrivateKey.rd, nonceSize)
                IN  IF r.err # ""
                    THEN [ciphertext |-> <<>>, err |-> "read random for nonce", rd |-> r.rd]
                    ELSE
                    LET nonce == r.data \o Zeros(nonceSize - r.n)
                    IN  [ciphertext |-> cipherPrefix \o nonce \o Seal(key, nonce, plaintext),
                         err |-> "", rd |-> r.rd]

\* Verify(pubKey, message, signature)
Verify(pubKey, message, signature) == EdVerify(pubKey, message, signature)

\* ------------------------------------------------------------ state
VARIABLES
    phase,        \* "none" before New, "ready" with a Crypto value, "panicked"
    seed,         \* the seed New was called with
    mainKey,      \* Crypto.mainKey
    random,       \* Crypto.random, the reader it points to
    voterRandom,  \* the reader a voter hands to Encrypt
    pollKey,      \* the private key the last successful CreatePollKey returned
    issued,       \* the last successful PublicPollKey: its key, pubKey, pubKeySig
    sealed,       \* the last successful Encrypt: its pub, plaintext, ciphertext, and
                  \* whether the ciphertext is still on its way
    last,         \* the last call: its name, inputs and results
    store,        \* service: poll id -> the poll's key entry
    calls,        \* service: caller -> the request it is executing
    started,      \* service: the number of polls started so far
    published,    \* service: poll id -> the public key the last Start returned
    wins          \* service: started poll -> the number of Stops that succeeded with its key

cryptoVars == <<phase, seed, mainKey, random>>
harnessVars == <<voterRandom, pollKey, issued, sealed, last>>
serviceVars == <<store, calls, started, published, wins>>
vars == <<phase, seed, mainKey, random, voterRandom, pollKey, issued, sealed, last,
          store, calls, started, published, wins>>

\* ------------------------------------------------------------ inputs
StreamLen == 70
VoterStreamLen == 50
MaxPlainLen == 2

Stream(a, n) == [i \in 1..n |-> (a * i + 11) % 256]

PlainBytes(n) == [i \in 1..n |-> (101 * i + 20) % 256]

Plaintexts == {PlainBytes(n) : n \in 0..MaxPlainLen}

Seeds == {Stream(3, seedSize), Stream(5, seedSize), Stream(3, seedSize - 1),
          Stream(3, seedSize + 1), <<>>}

\* two keys and a rest; one key in short reads and a rest; nothing
RandomSources == {NewReader(Stream(37, StreamLen), StreamLen),
                  NewReader(Stream(91, StreamLen - 30), 7),
                  NewReader(<<>>, 1)}

\* enough for one ciphertext; the same in short reads; a key and a part of a
\* nonce; a key and nothing
VoterSources == {NewReader(Stream(53, VoterStreamLen), VoterStreamLen),
                 NewReader(Stream(53, VoterStreamLen), 5),
                 NewReader(Stream(7, privKeySize + 8), privKeySize + 8),
                 NewReader(Stream(7, privKeySize), privKeySize)}

OtherKey == Stream(41, privKeySize)

\* private keys handed to PublicPollKey and Decrypt: valid ones and malformed ones
KeyInputs == {pollKey, OtherKey, Stream(41, privKeySize - 1), <<>>}

\* the public keys of the curve's prime order subgroup
SubgroupKeys == {PointBytes((Cofactor * k) % GroupSize) : k \in 1..(SubgroupOrder - 1)}

\* public keys handed to Encrypt: an issued one, a low order point, a short one
PubInputs == {issued.pubKey, PublicKeyBytes(OtherKey), PointBytes(SubgroupOrder),
              Zeros(pubKeySize - 1)}

\* every ciphertext that differs from ct in one bit of its nonce or sealed payload
Tampered(ct) == {FlipAt(ct, p, j) : p \in (pubKeySize + 1)..Len(ct), j \in 0..7}

\* ciphertexts handed to Decrypt by the voting service's tests: every one bit
\* change of the last ciphertext's nonce and payload, cuts of it, and made up ones
CipherInputs ==
    (IF sealed.ciphertext = <<>> THEN {}
     ELSE {sealed.ciphertext} \cup Tampered(sealed.ciphertext)
          \cup {SubSeq(sealed.ciphertext, 1, n) : n \in {MinCipherLen - 1, MinCipherLen}})
    \cup {Zeros(n) : n \in {1, MinCipherLen - 1, MinCipherLen}}
    \cup {PointBytes(BasePoint) \o Zeros(n) : n \in {nonceSize + gcmTagSize - 1,
                                                     nonceSize + gcmTagSize}}

\* a ciphertext of pt for the holder of private key k
CipherFor(k, pt) ==
    Encrypt(NewReader(Stream(53, VoterStreamLen), VoterStreamLen), 0,
            PublicKeyBytes(k), pt).ciphertext

\* ciphertexts handed to Decrypt next to the other calls of a Crypto value
FewCipherInputs ==
    {CipherFor(OtherKey, pt) : pt \in Plaintexts}
    \cup {FlipAt(CipherFor(OtherKey, PlainBytes(1)), pubKeySize + nonceSize + 1, 0)}
    \cup {Zeros(n) : n \in {MinCipherLen - 1, MinCipherLen}}

NoCall == [op |-> "", key |-> <<>>, data |-> <<>>, out |-> <<>>, sig |-> NoSig,
           err |-> "", ok |-> FALSE, before |-> 0]

NoIssued == [key |-> <<>>, pubKey |-> <<>>, pubKeySig |-> NoSig]

NoSealed == [pub |-> <<>>, plaintext |-> <<>>, ciphertext |-> <<>>, inFlight |-> FALSE]

\* ------------------------------------------------------------ calls of package crypto
CallNew ==
    /\ phase = "none"
    /\ \E s \in Seeds, rd \in RandomSources :
          LET c == New(s, rd)
          IN  /\ seed' = s
              /\ phase' = IF c.panic THEN "panicked" ELSE "ready"
              /\ mainKey' = c.mainKey
              /\ random' = rd
              /\ last' = [NoCall EXCEPT !.op = "New", !.key = s, !.ok = ~c.panic]
    /\ UNCHANGED <<voterRandom, pollKey, issued, sealed>>
    /\ UNCHANGED serviceVars

CallPublicMainKey ==
    /\ phase = "ready"
    /\ last' = [NoCall EXCEPT !.op = "PublicMainKey", !.out = PublicMainKey(mainKey),
                              !.ok = TRUE]
    /\ UNCHANGED <<voterRandom, pollKey, issued, sealed>>
    /\ UNCHANGED cryptoVars
    /\ UNCHANGED serviceVars

CallCreatePollKey ==
    /\ phase = "ready"
    /\ LET r == CreatePollKey(random)
       IN  /\ random' = r.rd
           /\ pollKey' = IF r.err = "" THEN r.key ELSE pollKey
           /\ last' = [NoCall EXCEPT !.op = "CreatePollKey", !.out = r.key, !.err = r.err,
                                     !.ok = (r.err = ""), !.before = random.pos]
    /\ UNCHANGED <<phase, seed, mainKey, voterRandom, issued, sealed>>
    /\ UNCHANGED serviceVars

CallPublicPollKey ==
    /\ phase = "ready"
    /\ \E k \in KeyInputs :
          LET r == PublicPollKey(mainKey, k)
          IN  /\ issued' = IF r.err = ""
                           THEN [key |-> k, pubKey |-> r.pubKey, pubKeySig |-> r.pubKeySig]
                           ELSE issued
              /\ last' = [NoCall EXCEPT !.op = "PublicPollKey", !.key = k, !.out = r.pubKey,
                                        !.sig = r.pubKeySig, !.err = r.err,
                                        !.ok = (r.err = "")]
    /\ UNCHANGED <<voterRandom, pollKey, sealed>>
    /\ UNCHANGED cryptoVars
    /\ UNCHANGED serviceVars

\* The voter encrypts until a ciphertext is made; that one is sent.
CallEncrypt ==
    /\ phase = "ready"
    /\ sealed.ciphertext = <<>>
    /\ \E pub \in PubInputs, pt \in Plaintexts, maybe \in {0, 1} :
          LET r == Encrypt(voterRandom, maybe, pub, pt)
          IN  /\ voterRandom' = r.rd
              /\ sealed' = IF r.err = ""
                           THEN [pub |-> pub, plaintext |-> pt, ciphertext |-> r.ciphertext,
                                 inFlight |-> TRUE]
                           ELSE sealed
              /\ last' = [NoCall EXCEPT !.op = "Encrypt", !.key = pub, !.data = pt,
                                        !.out = r.ciphertext, !.err = r.err,
                                        !.ok = (r.err = ""), !.before = Remaining(voterRandom)]
    /\ UNCHANGED <<pollKey, issued>>
    /\ UNCHANGED cryptoVars
    /\ UNCHANGED serviceVars

DoDecrypt(keys, ciphertexts) ==
    /\ phase = "ready"
    /\ \E k \in keys, ct \in ciphertexts :
          LET r == Decrypt(k, ct)
          IN  last' = [NoCall EXCEPT !.op = "Decrypt", !.key = k, !.data = ct,
                                     !.out = r.plaintext, !.err = r.err, !.ok = (r.err = "")]
    /\ UNCHANGED <<voterRandom, pollKey, issued, sealed>>
    /\ UNCHANGED cryptoVars
    /\ UNCHANGED serviceVars

CallDecrypt == DoDecrypt(KeyInputs, FewCipherInputs)

\* Sign, had it drawn its nonce from the random source.
CallSign_Randomized ==
    /\ phase = "ready"
    /\ \E value \in Plaintexts \cup {issued.pubKey} :
          last' = [NoCall EXCEPT !.op = "Sign", !.data = value, !.sig = Sign(mainKey, value),
                                 !.ok = TRUE]
    /\ random' = ReadFull(random, seedSize).rd
    /\ UNCHANGED <<phase, seed, mainKey, voterRandom, pollKey, issued, sealed>>
    /\ UNCHANGED serviceVars

CallSign ==
    /\ phase = "ready"
    /\ \E value \in Plaintexts \cup {issued.pubKey} :
          last' = [NoCall EXCEPT !.op = "Sign", !.data = value, !.sig = Sign(mainKey, value),
                                 !.ok = TRUE]
    /\ UNCHANGED <<voterRandom, pollKey, issued, sealed>>
    /\ UNCHANGED cryptoVars
    /\ UNCHANGED serviceVars

CallVerify ==
    /\ phase = "ready"
    /\ \E message \in SubgroupKeys \cup Plaintexts,
          pub \in {PublicMainKey(mainKey)} \cup {EdPublic(s) : s \in {Stream(3, seedSize), Stream(5, seedSize)}} :
          last' = [NoCall EXCEPT !.op = "Verify", !.key = pub, !.data = message,
                                 !.sig = issued.pubKeySig,
                                 !.ok = Verify(pub, message, issued.pubKeySig).ok]
    /\ UNCHANGED <<voterRandom, pollKey, issued, sealed>>
    /\ UNCHANGED cryptoVars
    /\ UNCHANGED serviceVars

ServiceIdle ==
    /\ store = <<>> /\ calls = <<>> /\ started = 0 /\ published = <<>> /\ wins = <<>>

Init ==
    /\ phase = "none"
    /\ seed = <<>>
    /\ mainKey = <<>>
    /\ random = NewReader(<<>>, 1)
    /\ voterRandom = NewReader(<<>>, 1)
    /\ pollKey = <<>>
    /\ issued = NoIssued
    /\ sealed = NoSealed
    /\ last = NoCall
    /\ ServiceIdle

Next ==
    \/ CallNew
    \/ CallPublicMainKey
    \/ CallCreatePollKey
    \/ CallPublicPollKey
    \/ CallDecrypt
    \/ CallSign
    \/ CallVerify

\* The calls of one Crypto value, in any order.
Spec == Init /\ [][Next]_vars

\* ------------------------------------------------------------ a vote's way
\* A poll key pair is issued, a voter encrypts against a public key, and the
\* ciphertext, as sent or changed on its way, is decrypted.
PollKeys == {Stream(37, privKeySize), Stream(38, privKeySize)}

CipherInit ==
    /\ phase = "ready"
    /\ seed = Stream(3, seedSize)
    /\ mainKey = New(seed, NewReader(<<>>, 1)).mainKey
    /\ random = NewReader(<<>>, 1)
    /\ voterRandom \in VoterSources
    /\ pollKey \in PollKeys
    /\ issued = [key |-> pollKey, pubKey |-> PublicPollKey(mainKey, pollKey).pubKey,
                 pubKeySig |-> PublicPollKey(mainKey, pollKey).pubKeySig]
    /\ sealed = NoSealed
    /\ last = NoCall
    /\ ServiceIdle

\* Decrypt of the ciphertext on its way, as sent, changed or cut.
VoteDecrypt ==
    /\ phase = "ready"
    /\ sealed.inFlight
    /\ \E k \in KeyInputs \ {<<>>}, ct \in CipherInputs :
          LET r == Decrypt(k, ct)
          IN  last' = [NoCall EXCEPT !.op = "Decrypt", !.key = k, !.data = ct,
                                     !.out = r.plaintext, !.err = r.err, !.ok = (r.err = "")]
    /\ sealed' = [sealed EXCEPT !.inFlight = FALSE]
    /\ UNCHANGED <<voterRandom, pollKey, issued>>
    /\ UNCHANGED cryptoVars
    /\ UNCHANGED serviceVars

CipherNext ==
    \/ CallEncrypt
    \/ VoteDecrypt

CipherSpec == CipherInit /\ [][CipherNext]_vars

\* ------------------------------------------------------------ the service
\* Start, Stop and Clear of the Decrypt service (src/unnamed/part_001 declares
\* them), from the design's text: a store of poll keys whose Create, Take and
\* Remove are atomic, Take removing the key it hands out; callers run their
\* requests concurrently.
MaxVotes == 2

PollIds == {"P1", "P2"}

Callers == {"a", "b"}

\* a vote is a ciphertext of a one byte plaintext as the voter sent it, or tampered
VoteKinds == {"one", "bad"}

VoteLists == UNION {[1..n -> VoteKinds] : n \in 0..MaxVotes}

\* the ciphertext a voter sends: made with Encrypt for the public key pub
CipherOf(kind, pub) ==
    LET ct == Encrypt(NewReader(Stream(53, VoterStreamLen), VoterStreamLen), 0, pub,
                      PlainBytes(1)).ciphertext
    IN  IF kind = "bad" THEN FlipAt(ct, Len(ct), 0) ELSE ct

\* the votes the voters of each public key may send
VoteCipher == [kind \in VoteKinds, pub \in SubgroupKeys |-> CipherOf(kind, pub)]

Absent == [key |-> <<>>, poll |-> 0]

Idle == [op |-> "", id |-> "", pc |-> "idle", votes |-> <<>>, pub |-> <<>>, key |-> <<>>,
         poll |-> 0, result |-> "", index |-> -1, out |-> <<>>, sig |-> NoSig,
         during |-> {}]

Free(c) == calls[c].pc \in {"idle", "done"}

\* caller c begins the request rec: what it did before is forgotten
Begin(c, rec) ==
    [x \in Callers |-> IF x = c THEN rec ELSE [calls[x] EXCEPT !.during = @ \ {c}]]

\* PollKeyStore.Create and the first half of Start
StartCreate(c, id) ==
    /\ Free(c)
    /\ IF store[id] # Absent
       THEN /\ calls' = Begin(c, [Idle EXCEPT !.op = "Start", !.id = id, !.pc = "done",
                                              !.result = "PollAlreadyActive"])
            /\ UNCHANGED <<random, store, started, wins>>
       ELSE LET r == CreatePollKey(random)
            IN  /\ random' = r.rd
                /\ IF r.err # ""
                   THEN /\ calls' = Begin(c, [Idle EXCEPT !.op = "Start", !.id = id,
                                                          !.pc = "done",
                                                          !.result = "RandomSourceExhausted"])
                        /\ UNCHANGED <<store, started, wins>>
                   ELSE /\ started' = started + 1
                        /\ store' = [store EXCEPT ![id] = [key |-> r.key, poll |-> started + 1]]
                        /\ wins' = Append(wins, 0)
                        /\ calls' = Begin(c, [Idle EXCEPT !.op = "Start", !.id = id,
                                                          !.pc = "created", !.key = r.key,
                                                          !.poll = started + 1])
    /\ UNCHANGED <<phase, seed, mainKey, published>>
    /\ UNCHANGED harnessVars

\* the second half of Start: DerivePollPublicKey, or the roll back of the entry
StartPublish(c) ==
    /\ calls[c].pc = "created"
    /\ LET r  == PublicPollKey(mainKey, calls[c].key)
           id == calls[c].id
       IN  IF r.err # ""
           THEN /\ store' = [store EXCEPT ![id] = IF @.poll = calls[c].poll THEN Absent ELSE @]
                /\ calls' = [calls EXCEPT ![c].pc = "done", ![c].result = "MalformedPrivateKey"]
                /\ UNCHANGED published
           ELSE /\ published' = [published EXCEPT ![id] = r.pubKey]
                /\ calls' = [calls EXCEPT ![c].pc = "done", ![c].result = "ok",
                                          ![c].out = r.pubKey, ![c].sig = r.pubKeySig]
                /\ UNCHANGED store
    /\ UNCHANGED <<started, wins>>
    /\ UNCHANGED cryptoVars
    /\ UNCHANGED harnessVars

\* Take, had it left the key in the store until Clear.
Take_KeepsKey(id) == [entry |-> store[id], store |-> store]

\* PollKeyStore.Take: the entry of id, which is removed from the store
Take(id) == [entry |-> store[id], store |-> [store EXCEPT ![id] = Absent]]

\* the callers in the middle of a Stop of id
Stopping(id) == {x \in Callers : calls[x].op = "Stop" /\ calls[x].id = id /\ calls[x].pc = "taken"}

\* the public key the voters of id encrypt for
VotersKey(id) == IF published[id] = <<>> THEN PublicKeyBytes(OtherKey) ELSE published[id]

\* the first half of Stop: the key is taken
StopTake(c, id) ==
    /\ Free(c)
    /\ LET t   == Take(id)
           req == [Idle EXCEPT !.op = "Stop", !.id = id, !.during = Stopping(id) \ {c}]
       IN  IF t.entry = Absent
           THEN /\ calls' = Begin(c, [req EXCEPT !.pc = "done", !.result = "PollNotFound"])
                /\ UNCHANGED store
           ELSE /\ calls' = Begin(c, [req EXCEPT !.pc = "taken", !.key = t.entry.key,
                                                 !.poll = t.entry.poll])
                /\ store' = t.store
    /\ UNCHANGED <<started, published, wins>>
    /\ UNCHANGED cryptoVars
    /\ UNCHANGED harnessVars

\* Decrypt of the votes in their order: the plaintexts, and the index (from 0) of
\* the first vote that does not decrypt, or -1
RECURSIVE DecryptFrom(_, _, _, _, _)
DecryptFrom(key, votes, pub, i, plain) ==
    IF i > Len(votes) THEN [index |-> -1, plain |-> plain]
    ELSE LET r == Decrypt(key, VoteCipher[votes[i], pub])
         IN  IF r.err # "" THEN [index |-> i - 1, plain |-> <<>>]
             ELSE DecryptFrom(key, votes, pub, i + 1, Append(plain, r.plaintext))

\* DecryptVotes, had it skipped the votes that do not decrypt.
RECURSIVE DecryptFrom_Skipping(_, _, _, _, _)
DecryptFrom_Skipping(key, votes, pub, i, plain) ==
    IF i > Len(votes) THEN [index |-> -1, plain |-> plain]
    ELSE LET r == Decrypt(key, VoteCipher[votes[i], pub])
         IN  DecryptFrom_Skipping(key, votes, pub, i + 1,
                                  IF r.err # "" THEN plain ELSE Append(plain, r.plaintext))

DecryptVotes_Skipping(key, votes, pub) == DecryptFrom_Skipping(key, votes, pub, 1, <<>>)

DecryptVotes(key, votes, pub) == DecryptFrom(key, votes, pub, 1, <<>>)

\* the result payload: every plaintext after its length
RECURSIVE FrameFrom(_, _)
FrameFrom(plain, i) ==
    IF i > Len(plain) THEN <<>>
    ELSE <<Len(plain[i])>> \o plain[i] \o FrameFrom(plain, i + 1)

Frame(plain) == FrameFrom(plain, 1)

\* the end of Stop, given what DecryptVotes returned: fail as a whole, or frame
\* and sign
Finish(c, votes, pub, d) ==
    IF d.index >= 0
    THEN /\ calls' = [calls EXCEPT ![c].pc = "done", ![c].votes = votes, ![c].pub = pub,
                                   ![c].result = "VoteDecryptionFailed",
                                   ![c].index = d.index]
         /\ UNCHANGED wins
    ELSE /\ calls' = [calls EXCEPT ![c].pc = "done", ![c].votes = votes, ![c].pub = pub,
                                   ![c].result = "ok", ![c].out = Frame(d.plain),
                                   ![c].sig = Sign(mainKey, Frame(d.plain))]
         /\ wins' = [wins EXCEPT ![calls[c].poll] = @ + 1]

\* the second half of Stop, on the request's votes (their content plays no part
\* before): decrypt every vote, then finish
StopFinish(c, votes) ==
    /\ calls[c].pc = "taken"
    /\ Finish(c, votes, VotersKey(calls[c].id),
              DecryptVotes(calls[c].key, votes, VotersKey(calls[c].id)))
    /\ UNCHANGED <<store, started, published>>
    /\ UNCHANGED cryptoVars
    /\ UNCHANGED harnessVars

\* Remove, had it emptied the whole store.
Remove_All(id) == [x \in PollIds |-> Absent]

\* PollKeyStore.Remove: no entry for id afterwards
Remove(id) == [store EXCEPT ![id] = Absent]

\* Clear
Clear(c, id) ==
    /\ Free(c)
    /\ store' = Remove(id)
    /\ calls' = Begin(c, [Idle EXCEPT !.op = "Clear", !.id = id, !.pc = "done",
                                      !.result = "ok"])
    /\ UNCHANGED <<started, published, wins>>
    /\ UNCHANGED cryptoVars
    /\ UNCHANGED harnessVars

ServiceInit ==
    /\ phase = "ready"
    /\ seed = Stream(3, seedSize)
    /\ mainKey = New(seed, NewReader(<<>>, 1)).mainKey
    /\ random = NewReader(Stream(37, StreamLen), 7)
    /\ voterRandom = NewReader(<<>>, 1)
    /\ pollKey = <<>>
    /\ issued = NoIssued
    /\ sealed = NoSealed
    /\ last = NoCall
    /\ store = [id \in PollIds |-> Absent]
    /\ calls = [c \in Callers |-> Idle]
    /\ started = 0
    /\ published = [id \in PollIds |-> <<>>]
    /\ wins = <<>>

ServiceNext ==
    \E c \in Callers :
       \/ \E id \in PollIds : StartCreate(c, id)
       \/ StartPublish(c)
       \/ \E id \in PollIds : StopTake(c, id)
       \/ \E votes \in VoteLists : StopFinish(c, votes)
       \/ \E id \in PollIds : Clear(c, id)

ServiceSpec == ServiceInit /\ [][ServiceNext]_vars

\* ------------------------------------------------------------ claims: a vote's way
\* the private key k is the one of the key pair the ciphertext was made for
Matches(k) ==
    /\ PublicPollKey(mainKey, k).err = ""
    /\ PublicPollKey(mainKey, k).pubKey = sealed.pub

\* the bytes Encrypt reads at most: MaybeReadByte, the key, the nonce
EncryptNeeds == 1 + privKeySize + nonceSize

\* C1: round trip.  Encrypt for the public key of a poll key pair, with a random
\* source that holds enough bytes, succeeds; and Decrypt of what Encrypt returned,
\* with the pair's private key, succeeds and returns exactly the plaintext (the
\* empty one included).
C1_RoundTrip ==
    /\ (last.op = "Encrypt" /\ last.key \in SubgroupKeys /\ last.before >= EncryptNeeds)
          => (last.ok /\ sealed.ciphertext = last.out /\ sealed.plaintext = last.data)
    /\ (last.op = "Decrypt" /\ last.data = sealed.ciphertext /\ Matches(last.key))
          => (last.err = "" /\ last.out = sealed.plaintext)

C1_Witness ==
    /\ last.op = "Decrypt"
    /\ last.data = sealed.ciphertext
    /\ Matches(last.key)
    /\ Len(sealed.plaintext) = MaxPlainLen
    /\ last.out = sealed.plaintext

\* C5: tamper detection.  Decrypt, with the matching private key, of a ciphertext
\* that differs from one Encrypt returned in a single bit of the nonce or of the
\* sealed payload returns the authentication error and no plaintext.
C5_TamperDetected ==
    (last.op = "Decrypt" /\ last.data \in Tampered(sealed.ciphertext) /\ Matches(last.key))
       => (last.err = "decrypting ciphertext" /\ last.out = <<>> /\ ~last.ok)

C5_Witness ==
    /\ last.op = "Decrypt"
    /\ Matches(last.key)
    /\ Len(sealed.plaintext) > 0
    /\ last.data = FlipAt(sealed.ciphertext, pubKeySize + nonceSize + 1, 7)
    /\ last.err = "decrypting ciphertext"

\* the minimum length the specification states: key, nonce and authentication tag
StatedMinLen == pubKeySize + nonceSize + gcmTagSize

\* C7: Decrypt refuses every ciphertext shorter than 60 bytes with the too-short
\* error and no plaintext, whatever the private key (well formed or not); the
\* length check refuses no ciphertext of 60 bytes or more; and what Encrypt returns
\* is 60 + len(plaintext) bytes long.
C7_MinimumLength ==
    /\ StatedMinLen = 60
    /\ (last.op = "Decrypt" /\ Len(last.data) < StatedMinLen)
          => (last.err = "invalid cipher" /\ last.out = <<>>)
    /\ (last.op = "Decrypt" /\ Len(last.data) >= StatedMinLen)
          => last.err # "invalid cipher"
    /\ (last.op = "Encrypt" /\ last.ok) => Len(last.out) = StatedMinLen + Len(last.data)

C7_Witness ==
    /\ last.op = "Decrypt"
    /\ Len(last.data) = StatedMinLen - 1
    /\ Len(last.key) # privKeySize
    /\ last.err = "invalid cipher"

\* ------------------------------------------------------------ claims: the Crypto value
\* C2: signature integrity.  What PublicPollKey returns verifies under the public
\* main key; and its signature verifies for no other poll public key.
C2_SignatureIntegrity ==
    /\ (last.op = "PublicPollKey" /\ last.ok)
          => Verify(PublicMainKey(mainKey), last.out, last.sig).ok
    /\ (last.op = "Verify" /\ last.key = PublicMainKey(mainKey) /\ issued # NoIssued
        /\ last.data \in SubgroupKeys)
          => (last.ok <=> last.data = issued.pubKey)

C2_Witness ==
    /\ last.op = "Verify"
    /\ last.key = PublicMainKey(mainKey)
    /\ issued # NoIssued
    /\ last.data = issued.pubKey
    /\ last.ok

\* C6 as stated: New returns an InvalidSeedLength error to its caller for a seed
\* that is not 32 bytes long.
C6_ErrorReturned ==
    (last.op = "New" /\ Len(seed) # seedSize)
       => (phase # "panicked" /\ last.err = "InvalidSeedLength")

\* C6, amended: New yields a main key exactly for the 32 byte seeds; for every
\* other seed it panics, and returns nothing to its caller.
C6_PanicsOnBadSeed ==
    phase # "none" =>
       /\ (Len(seed) # seedSize <=> phase = "panicked")
       /\ (phase = "panicked" => mainKey = <<>>)
       /\ (phase = "ready" => /\ Len(mainKey) = seedSize + pubKeySize
                              /\ SubSeq(mainKey, 1, seedSize) = seed)

C6_Witness == phase = "panicked" /\ Len(seed) = seedSize + 1

\* C9: CreatePollKey returns the next 32 bytes of the random source, and moves the
\* source by exactly 32; with fewer than 32 bytes left it returns an error and no
\* key.
C9_CreatePollKey ==
    last.op = "CreatePollKey" =>
       IF Len(random.src) - last.before >= 32
       THEN /\ last.err = ""
            /\ last.out = SubSeq(random.src, last.before + 1, last.before + 32)
            /\ random.pos = last.before + 32
            /\ pollKey = last.out
       ELSE /\ last.err # ""
            /\ last.out = <<>>

C9_Witness ==
    /\ last.op = "CreatePollKey"
    /\ last.ok
    /\ random.chunk < privKeySize
    /\ Len(last.out) = privKeySize

\* C10: no call changes the main key, PublicMainKey returns the public key of the
\* seed New was given, and PublicMainKey, PublicPollKey, Decrypt, Sign (and Verify)
\* leave the random source where it is.
C10_Frame ==
    [][/\ phase = "ready" => mainKey' = mainKey
       /\ last'.op \in {"PublicMainKey", "PublicPollKey", "Decrypt", "Sign", "Verify"}
             => random' = random
       /\ last'.op = "PublicMainKey" => last'.out = EdPublic(seed')]_vars

C10_Witness ==
    /\ last.op = "PublicMainKey"
    /\ random.pos > privKeySize
    /\ last.out = EdPublic(seed)

\* ------------------------------------------------------------ claims: the service
Done(c) == calls[c].pc = "done"

Won(c) == calls[c].op = "Stop" /\ Done(c) /\ calls[c].result = "ok"

\* b took (or missed) the key while a was in the middle of its Stop of the same id
Concurrent(a, b) ==
    /\ a # b
    /\ calls[b].op = "Stop"
    /\ a \in calls[b].during
    /\ Done(a)
    /\ Done(b)

FailsAt(c, i) ==
    Decrypt(calls[c].key, VoteCipher[calls[c].votes[i], calls[c].pub]).err # ""

\* C4: a Stop that took the key of an active poll and whose votes hold one that
\* does not decrypt fails with VoteDecryptionFailed and the index of such a vote,
\* returns no plaintext and no signature, and the key is gone: it is in the store
\* no more and no Stop has succeeded with it.
C4_BatchAtomicity ==
    \A c \in Callers :
       (/\ calls[c].op = "Stop"
        /\ Done(c)
        /\ calls[c].poll > 0
        /\ \E i \in 1..Len(calls[c].votes) : FailsAt(c, i))
       => /\ calls[c].result = "VoteDecryptionFailed"
          /\ calls[c].index \in 0..(Len(calls[c].votes) - 1)
          /\ FailsAt(c, calls[c].index + 1)
          /\ calls[c].out = <<>>
          /\ calls[c].sig = NoSig
          /\ wins[calls[c].poll] = 0
          /\ \A id \in PollIds : store[id].poll # calls[c].poll

C4_Witness ==
    \E c \in Callers :
       /\ calls[c].op = "Stop"
       /\ Done(c)
       /\ Len(calls[c].votes) = MaxVotes
       /\ \A i \in 1..(MaxVotes - 1) : ~FailsAt(c, i)
       /\ FailsAt(c, MaxVotes)
       /\ calls[c].result = "VoteDecryptionFailed"
       /\ calls[c].index = MaxVotes - 1

====
